---- MODULE Spec2Model ----
(***************************************************************************)
(* Model of Transcriber.process_sentence_interactively (transcriber.py),  *)
(* of the transcription pipeline (transcribe and its three steps) and of  *)
(* the string helpers they use.  A string is a sequence of one-character  *)
(* strings; indices of the program are 0-based, as in the source, and are *)
(* shifted by one where a TLA+ sequence is indexed.                       *)
(***************************************************************************)
EXTENDS Integers, Sequences, FiniteSets, TLC

VARIABLES
    sentences,               \* the caller's list, mutated in place
    current_sentence_index,  \* parameter / local of the review loop
    selected_word_index,     \* local
    sentence,                \* local: the sentence string being shown
    words,                   \* local: split_sentence_into_words(sentence)
    user_action,             \* local: the last command read, lowercased
    variation,               \* parameter
    pi_dictionary,           \* self.pi_dictionary: the loaded snapshot
    store,                   \* the persisted dictionary edit_entry writes to
    edits,                   \* number of edit_entry calls that changed the store
    pc,                      \* "outer" | "prompt" | "returned" | "fault"
    fault,                   \* the exception that ended the call, or "none"
    result,                  \* the value the call returned to its caller
    passes,                  \* consecutive outer-loop passes that read no command
    called,                  \* the pipeline functions called so far, in order
    texts                    \* texts[1]: the input text; texts[k+1]: what call k returned

vars == <<sentences, current_sentence_index, selected_word_index, sentence,
          words, user_action, variation, pi_dictionary, store, edits, pc,
          fault, result, passes, called, texts>>

----------------------------------------------------------------------------
(* Bounds of the model. *)

\* Largest number of sentences in the list handed to the review.
MaxSentences == 2
\* How far current_sentence_index may run past len(sentences) (the `s`
\* command increments it without limit once it is past the end).
MaxOvershoot == 1
\* Number of edit_entry calls that change the persisted dictionary.
MaxEdits == 1
\* Number of consecutive outer-loop passes without a prompt that are followed.
MaxPasses == 2
\* Largest number of pieces (words, punctuation) in a text given to the pipeline.
MaxPieces == 2
\* Number of times transcribe is applied in a row (to its own output).
MaxCalls == 2

----------------------------------------------------------------------------
(* Characters. *)

\* <<lowercase, uppercase>> pairs of the cased letters of the model.
CasePairs == {<<"a", "A">>, <<"b", "B">>, <<"c", "C">>, <<"k", "K">>,
              <<"x", "X">>, <<"d", "D">>, <<"e", "E">>, <<"f", "F">>,
              <<"g", "G">>, <<"h", "H">>, <<"i", "I">>, <<"l", "L">>,
              <<"m", "M">>, <<"n", "N">>, <<"o", "O">>, <<"r", "R">>,
              <<"s", "S">>, <<"t", "T">>, <<"u", "U">>, <<"v", "V">>,
              <<"y", "Y">>}
LowerChars == {p[1] : p \in CasePairs}
UpperChars == {p[2] : p \in CasePairs}
\* Uncased word characters (digits, underscore).
UncasedWordChars == {"1", "_"}
\* Non-word characters: whitespace, punctuation, and the characters of the
\* preliminary replacements that \w does not match: "~", ":" and "'" stand
\* for the combining diacritics U+032C, U+0308 and U+0323 (category Mn), "<"
\* and ">" for the quotation marks U+2039 and U+203A.
SpaceChars == {" "}
NonWordChars == SpaceChars \cup {".", "~", ":", "'", "<", ">"}

\* The cased characters, and the characters \w matches.
CasedChars == LowerChars \cup UpperChars
WordChars == CasedChars \cup UncasedWordChars

\* \w of Python's re on str patterns.
IsWordChar(c) == c \in WordChars

\* str.upper / str.lower on one character.
UpperOf(c) == IF c \in LowerChars
              THEN (CHOOSE p \in CasePairs : p[1] = c)[2] ELSE c
LowerOf(c) == IF c \in UpperChars
              THEN (CHOOSE p \in CasePairs : p[2] = c)[1] ELSE c

----------------------------------------------------------------------------
(* Python str methods. *)

\* str.upper()
str_upper(s) == [i \in 1..Len(s) |-> UpperOf(s[i])]
\* str.lower()
str_lower(s) == [i \in 1..Len(s) |-> LowerOf(s[i])]
\* str.capitalize(): first character uppercased, the rest lowercased.
capitalize(s) ==
    [i \in 1..Len(s) |-> IF i = 1 THEN UpperOf(s[i]) ELSE LowerOf(s[i])]
\* str.isupper(): no lowercase character and at least one uppercase one.
isupper(s) == /\ \A i \in 1..Len(s) : s[i] \notin LowerChars
              /\ \E i \in 1..Len(s) : s[i] \in UpperChars
\* str.istitle(): uppercase characters only after uncased ones, lowercase
\* characters only after cased ones, and at least one cased character.
istitle(s) ==
    LET cased(i) == i >= 1 /\ s[i] \in CasedChars
    IN  /\ \E i \in 1..Len(s) : cased(i)
        /\ \A i \in 1..Len(s) :
              /\ s[i] \in UpperChars => ~cased(i - 1)
              /\ s[i] \in LowerChars => cased(i - 1)
\* str.strip() for the whitespace of the model.
RECURSIVE lstrip(_)
lstrip(s) == IF s # <<>> /\ Head(s) \in SpaceChars THEN lstrip(Tail(s)) ELSE s
RECURSIVE rstrip(_)
rstrip(s) == IF s # <<>> /\ s[Len(s)] \in SpaceChars
             THEN rstrip(SubSeq(s, 1, Len(s) - 1)) ELSE s
strip(s) == rstrip(lstrip(s))

----------------------------------------------------------------------------
(* Regular-expression helpers. *)

\* \b at offset p (0..Len(s)): exactly one side is a word character.
WordBoundary(s, p) ==
    LET before == p >= 1 /\ IsWordChar(s[p])
        after  == p < Len(s) /\ IsWordChar(s[p + 1])
    IN  before # after

\* re.findall(r'\b\w+\b', sentence): the maximal runs of word characters.
RECURSIVE FindWords(_, _, _)
FindWords(s, p, cur) ==
    IF p > Len(s)
    THEN IF cur = <<>> THEN <<>> ELSE <<cur>>
    ELSE IF IsWordChar(s[p])
         THEN FindWords(s, p + 1, Append(cur, s[p]))
         ELSE IF cur = <<>> THEN FindWords(s, p + 1, <<>>)
              ELSE <<cur>> \o FindWords(s, p + 1, <<>>)
split_sentence_into_words(s) == FindWords(s, 1, <<>>)

\* Python's None where a string is expected: the value of a PI mapping that
\* is null.  It is no string of the model (no character is "None").
NoValue == <<"None">>

\* The case rule of replace_word_in_sentence's callback.
replace(matched_word, replacement) ==
    IF isupper(matched_word) THEN str_upper(replacement)
    ELSE IF istitle(matched_word) THEN capitalize(replacement)
    ELSE replacement

\* A variant of the match without the two \b: the word may lie inside a
\* longer one.
MatchesInsideWords(s, p, word) ==
    /\ Len(word) > 0
    /\ p + Len(word) <= Len(s)
    /\ str_lower(SubSeq(s, p + 1, p + Len(word))) = str_lower(word)

\* Whether rf'\b{word}\b' with re.IGNORECASE matches s at offset p (0-based).
MatchesAt(s, p, word) ==
    /\ Len(word) > 0
    /\ p + Len(word) <= Len(s)
    /\ str_lower(SubSeq(s, p + 1, p + Len(word))) = str_lower(word)
    /\ WordBoundary(s, p)
    /\ WordBoundary(s, p + Len(word))

\* What re.sub puts in place of a match for the callback's return value r:
\* a returned None counts as the empty string.
Substituted(r) == IF r = NoValue THEN <<>> ELSE r

\* re.sub(pattern, replace, sentence, flags=re.IGNORECASE): leftmost,
\* non-overlapping matches, scanning from offset p.
RECURSIVE ReSub(_, _, _, _)
ReSub(s, p, word, replacement) ==
    IF p >= Len(s) THEN <<>>
    ELSE IF MatchesAt(s, p, word)
         THEN Substituted(replace(SubSeq(s, p + 1, p + Len(word)), replacement))
              \o ReSub(s, p + Len(word), word, replacement)
         ELSE <<s[p + 1]>> \o ReSub(s, p + 1, word, replacement)

replace_word_in_sentence(s, word, replacement) == ReSub(s, 0, word, replacement)

\* Whether replace_word_in_sentence raises AttributeError: the replacement is
\* None and some match is uppercase or title case, so that the callback
\* calls None.upper() or None.capitalize().
ReplaceRaises(s, word, replacement) ==
    /\ replacement = NoValue
    /\ \E p \in 0..Len(s) :
          /\ MatchesAt(s, p, word)
          /\ LET matched_word == SubSeq(s, p + 1, p + Len(word))
             IN  isupper(matched_word) \/ istitle(matched_word)

\* A variant that rewrites the current sentence only.
replace_word_in_current_sentence_only(S, original_word, new_word) ==
    [i \in 1..Len(S) |->
        IF i = current_sentence_index + 1
        THEN replace_word_in_sentence(S[i], original_word, new_word)
        ELSE S[i]]

replace_word_in_all_sentences(S, original_word, new_word) ==
    [i \in 1..Len(S) |-> replace_word_in_sentence(S[i], original_word, new_word)]

\* The sentences (1-based) at which the loop of replace_word_in_all_sentences
\* raises, and the list as the loop leaves it when it raises at sentence j:
\* the sentences before j are rewritten in place, the others are not.
RaisingSentences(S, original_word, new_word) ==
    {i \in 1..Len(S) : ReplaceRaises(S[i], original_word, new_word)}
ReplacedBefore(S, j, original_word, new_word) ==
    [i \in 1..Len(S) |->
        IF i < j THEN replace_word_in_sentence(S[i], original_word, new_word)
        ELSE S[i]]

----------------------------------------------------------------------------
(* The dictionary collaborator (class Dictionary, module dictionary). *)

Variations == {"L1"}

\* A dictionary is a function from lowercase keys to entries
\* [whole |-> key, PI |-> [variation |-> phonetic form]].  The entries built
\* here give every variation a form.
Entry(key, form) == [whole |-> key, PI |-> [v \in Variations |-> form]]

\* The persisted dictionary at construction: "ab" has a form with a
\* diacritic, which is no word character, "c" a plain one.
InitialStore ==
    (<<"a", "b">> :> Entry(<<"a", "b">>, <<"a", "~", "b">>))
    @@ (<<"c">> :> Entry(<<"c">>, <<"k">>))

\* A persisted dictionary whose entries lack a value for the variation: the
\* PI mapping of "ab" holds null for it, that of "c" has no such key.
MissingStore ==
    (<<"a", "b">> :> [whole |-> <<"a", "b">>,
                      PI |-> [v \in Variations |-> NoValue]])
    @@ (<<"c">> :> [whole |-> <<"c">>, PI |-> [v \in {} |-> NoValue]])

\* Dictionary(...): load the persisted store into a fresh snapshot.
LoadDictionary(persisted) == persisted

\* Dictionary.get_entry(key) is truthy.
HasEntry(d, key) == key \in DOMAIN d
\* Dictionary.get_entry(key), for a key that has an entry.
get_entry(d, key) == d[key]

\* The forms a user may type into Dictionary.edit_entry.
EditForms == {<<"x">>}
\* Dictionary.edit_entry(key): the user rewrites the entry in the store.
edit_entry(persisted, key, form) ==
    [k \in DOMAIN persisted \cup {key} |->
        IF k = key THEN Entry(key, form) ELSE persisted[k]]

----------------------------------------------------------------------------
(* The transcription pipeline: transcribe and its three steps. *)

\* self.preliminar_replacements, in the order of the dict: <<key, value>>.
preliminar_replacements ==
    << << <<"t", "h", "e">>,      <<"t", "h", "e", "~">> >>,
       << <<"a">>,                <<"a", "~">> >>,
       << <<"a", "n">>,           <<"a", "~", "n">> >>,
       << <<"o", "f">>,           <<"<", "o", "~", "v", ">">> >>,
       << <<"t", "o">>,           <<"t", "o", "~">> >>,
       << <<"y", "o", "u">>,      <<"y", "o", ":", "u">> >>,
       << <<"t", "h", "i", "s">>, <<"t", "h", "i", "s", "'">> >>,
       << <<"a", "n", "d">>,      <<"a", "n", "d">> >>,
       << <<"f", "o", "r">>,      <<"f", "o", "r">> >>,
       << <<"f", "r", "o", "m">>, <<"f", "r", "o", "~", "m">> >> >>

\* The case rule of perform_preliminar_replacements' callback.
replacement_callback(word, replacement) ==
    IF istitle(word) THEN capitalize(replacement)
    ELSE IF isupper(word) THEN str_upper(replacement)
    ELSE replacement

\* re.sub(r'\b{}\b'.format(word), replacement_callback, input_text,
\* flags=re.IGNORECASE), scanning from offset p.
RECURSIVE SubPreliminar(_, _, _, _)
SubPreliminar(s, p, word, replacement) ==
    IF p >= Len(s) THEN <<>>
    ELSE IF MatchesAt(s, p, word)
         THEN replacement_callback(SubSeq(s, p + 1, p + Len(word)), replacement)
              \o SubPreliminar(s, p + Len(word), word, replacement)
         ELSE <<s[p + 1]>> \o SubPreliminar(s, p + 1, word, replacement)

\* The loop of perform_preliminar_replacements from the k-th key on.
RECURSIVE ReplaceFromKey(_, _)
ReplaceFromKey(input_text, k) ==
    IF k > Len(preliminar_replacements) THEN input_text
    ELSE ReplaceFromKey(SubPreliminar(input_text, 0,
                                      preliminar_replacements[k][1],
                                      preliminar_replacements[k][2]),
                        k + 1)

perform_preliminar_replacements(input_text) == ReplaceFromKey(input_text, 1)

\* The alternative of r'\w+|[^\w\s]+|\s+' that matches character c.
TokenClass(c) ==
    IF IsWordChar(c) THEN "word" ELSE IF c \in SpaceChars THEN "space" ELSE "other"

\* re.findall(r'\w+|[^\w\s]+|\s+', input_text): the maximal runs of word
\* characters, of whitespace, and of the other characters.
RECURSIVE FindTokens(_, _, _)
FindTokens(s, p, cur) ==
    IF p > Len(s)
    THEN IF cur = <<>> THEN <<>> ELSE <<cur>>
    ELSE IF cur = <<>> \/ TokenClass(s[p]) = TokenClass(cur[1])
         THEN FindTokens(s, p + 1, Append(cur, s[p]))
         ELSE <<cur>> \o FindTokens(s, p + 1, <<s[p]>>)
tokenize(input_text) == FindTokens(input_text, 1, <<>>)

\* ''.join(updated_tokens)
RECURSIVE join(_)
join(tokens) == IF tokens = <<>> THEN <<>> ELSE Head(tokens) \o join(Tail(tokens))

\* A variant of the filter that only asks for the key of the variation.
HasKeyForVariation(d, word, v) == v \in DOMAIN d[word].PI

\* pi_dictionary[word]["PI"].get(variation) is truthy: a non-empty string.
HasTruthyValue(d, word, v) ==
    /\ v \in DOMAIN d[word].PI
    /\ d[word].PI[v] # NoValue
    /\ d[word].PI[v] # <<>>

\* replacement_dict of update_words_for_piss_variation.
replacement_dict(d, v) ==
    [word \in {w \in DOMAIN d : HasTruthyValue(d, w, v)} |-> d[word].PI[v]]

\* replace_word of update_words_for_piss_variation.
replace_word(word, d, v) ==
    LET lower_word == str_lower(word)
    IN  IF lower_word \in DOMAIN replacement_dict(d, v)
        THEN LET replacement == replacement_dict(d, v)[lower_word]
             IN  IF isupper(word) THEN str_upper(replacement)
                 ELSE IF word[1] \in UpperChars
                 THEN <<UpperOf(replacement[1])>> \o Tail(replacement)
                 ELSE replacement
        ELSE word

update_words_for_piss_variation(input_text, d, v) ==
    LET tokens == tokenize(input_text)
    IN  join([k \in 1..Len(tokens) |->
                 IF strip(tokens[k]) # <<>> THEN replace_word(tokens[k], d, v)
                 ELSE tokens[k]])

\* A variant of the test of transform_word that looks at the last character
\* only.
EndsInS(word) == word[Len(word)] = "s"

\* The first test of transform_word: the last character is `s` and the one
\* before it, if there is one, is not.
EndsInSingleS(word) ==
    /\ word[Len(word)] = "s"
    /\ (Len(word) < 2 \/ word[Len(word) - 1] # "s")

\* A variant of transform_word without the test that the value is not None.
transform_word_without_none_test(word, d, v) ==
    IF EndsInSingleS(word)
    THEN LET base_word == SubSeq(word, 1, Len(word) - 1)
             lower_base_word == str_lower(base_word)
         IN  IF HasEntry(d, lower_base_word) /\ v \in DOMAIN d[lower_base_word].PI
             THEN LET replacement == d[lower_base_word].PI[v]
                  IN  (IF base_word[1] \in UpperChars
                       THEN capitalize(replacement) ELSE replacement)
                      \o <<"s">>
             ELSE word
    ELSE word

\* transform_word of transform_words_with_s_suffix.  (base_word[0] is only
\* read when the lowercased stem is a key of the dictionary.)
transform_word(word, d, v) ==
    IF EndsInSingleS(word)
    THEN LET base_word == SubSeq(word, 1, Len(word) - 1)
             lower_base_word == str_lower(base_word)
         IN  IF HasEntry(d, lower_base_word) /\ v \in DOMAIN d[lower_base_word].PI
             THEN LET replacement == d[lower_base_word].PI[v]
                  IN  IF replacement # NoValue
                      THEN (IF base_word[1] \in UpperChars
                            THEN capitalize(replacement) ELSE replacement)
                           \o <<"s">>
                      ELSE word
             ELSE word
    ELSE word

transform_words_with_s_suffix(input_text, d, v) ==
    LET tokens == tokenize(input_text)
    IN  join([k \in 1..Len(tokens) |->
                 IF strip(tokens[k]) # <<>> THEN transform_word(tokens[k], d, v)
                 ELSE tokens[k]])

\* Whether transform_words_with_s_suffix raises IndexError at base_word[0]:
\* a token is a lone `s` and the empty string is a key with a value.
TransformRaises(input_text, d, v) ==
    /\ \E k \in 1..Len(tokenize(input_text)) : tokenize(input_text)[k] = <<"s">>
    /\ HasEntry(d, <<>>)
    /\ v \in DOMAIN d[<<>>].PI
    /\ d[<<>>].PI[v] # NoValue

transcribe(input_text, d, v) ==
    transform_words_with_s_suffix(
        update_words_for_piss_variation(
            perform_preliminar_replacements(input_text), d, v), d, v)

----------------------------------------------------------------------------
(* The inputs of a review session. *)

\* The sentences a review may be given: a dictionary key ("ab") in lower,
\* title and upper case, a second key ("c"), a word without an entry ("b"),
\* trailing punctuation, and a sentence of punctuation only.
SentencePool ==
    { <<"a", "b", " ", "c">>,
      <<"A", "b", " ", "b", ".">>,
      <<"A", "B">>,
      <<".">> }

RECURSIVE ListsUpTo(_)
ListsUpTo(n) ==
    IF n = 0 THEN {<<>>}
    ELSE LET shorter == ListsUpTo(n - 1)
         IN  shorter \cup {Append(l, s) : l \in {x \in shorter : Len(x) = n - 1},
                                          s \in SentencePool}

\* What the user may type at the command prompt (before .lower()).
Inputs == {<<"a">>, <<"A">>, <<"n">>, <<>>, <<"p">>, <<"e">>, <<"c">>,
           <<"s">>, <<"q">>, <<"x">>}
\* What the user may type at the customize prompt (before .strip()).
CustomInputs == {<<" ">>, <<"x", " ">>}

\* Marks a local variable that has not been assigned yet.
Unassigned == <<"unassigned">>
\* The value of a call that returned without a return value.
None == [kind |-> "None"]

----------------------------------------------------------------------------
(* process_sentence_interactively *)

Init ==
    /\ sentences \in ListsUpTo(MaxSentences)
    /\ current_sentence_index \in 0..Len(sentences)
    /\ variation \in Variations
    /\ store = InitialStore
    /\ pi_dictionary = LoadDictionary(InitialStore)
    /\ selected_word_index = 0
    /\ sentence = Unassigned
    /\ words = <<>>
    /\ user_action = Unassigned
    /\ edits = 0
    /\ pc = "outer"
    /\ fault = "none"
    /\ result = [kind |-> "running"]
    /\ passes = 0
    /\ called = <<>>
    /\ texts = <<>>

\* The state after construction over a dictionary with missing values.
InitMissing ==
    /\ sentences \in ListsUpTo(MaxSentences)
    /\ current_sentence_index \in 0..Len(sentences)
    /\ variation \in Variations
    /\ store = MissingStore
    /\ pi_dictionary = LoadDictionary(MissingStore)
    /\ selected_word_index = 0
    /\ sentence = Unassigned
    /\ words = <<>>
    /\ user_action = Unassigned
    /\ edits = 0
    /\ pc = "outer"
    /\ fault = "none"
    /\ result = [kind |-> "running"]
    /\ passes = 0
    /\ called = <<>>
    /\ texts = <<>>

\* The call ends with an exception; the locals keep the values given.
Raise(exc, S, i, w, sent, ws) ==
    /\ pc' = "fault"
    /\ fault' = exc
    /\ sentences' = S
    /\ current_sentence_index' = i
    /\ selected_word_index' = w
    /\ sentence' = sent
    /\ words' = ws
    /\ UNCHANGED <<result, passes>>

\* The test of the inner loop with the locals as given, under dictionary d:
\* either the next word is selected, looked up and displayed and the command
\* prompt is reached, or the inner loop ends and the sentence is written back
\* (np is the number of passes without a command that then have ended).
InnerLoop(S, i, w, sent, ws, d, np) ==
    IF w < Len(ws)
    THEN IF w < 0 /\ -w > Len(ws)
         THEN Raise("IndexError", S, i, w, sent, ws)
         ELSE LET selected_word == IF w >= 0 THEN ws[w + 1] ELSE ws[Len(ws) + w + 1]
                  key == str_lower(selected_word)
              IN  IF HasEntry(d, key) /\ variation \notin DOMAIN get_entry(d, key).PI
                  THEN Raise("KeyError", S, i, w, sent, ws)
                  ELSE /\ pc' = "prompt"
                       /\ sentences' = S
                       /\ current_sentence_index' = i
                       /\ selected_word_index' = w
                       /\ sentence' = sent
                       /\ words' = ws
                       /\ passes' = 0
                       /\ UNCHANGED <<fault, result>>
    ELSE IF i >= Len(S)
         THEN Raise("IndexError", S, i, w, sent, ws)
         ELSE /\ pc' = "outer"
              /\ sentences' = [S EXCEPT ![i + 1] = sent]
              /\ current_sentence_index' = i
              /\ selected_word_index' = w
              /\ sentence' = sent
              /\ words' = ws
              /\ passes' = np
              /\ UNCHANGED <<fault, result>>

\* The word under the cursor and its dictionary lookup, at the prompt.
SelectedWord == words[selected_word_index + 1]
pi_entry_found == HasEntry(pi_dictionary, str_lower(SelectedWord))
pi_entry == get_entry(pi_dictionary, str_lower(SelectedWord))

\* The branch of the if/elif chain a lowercased command takes.
Branch(ua) ==
    IF ua = <<"a">> /\ pi_entry_found THEN "accept"
    ELSE IF ua = <<"n">> \/ ua = <<>> THEN "next"
    ELSE IF ua = <<"p">> THEN "previous"
    ELSE IF ua = <<"e">> THEN "edit"
    ELSE IF ua = <<"c">> /\ pi_entry_found THEN "customize"
    ELSE IF ua = <<"s">> THEN "skip"
    ELSE IF ua = <<"q">> THEN "quit"
    ELSE "invalid"

\* Util.input_with_spacing(...).lower() is read and selects branch b.
ReadCommand(b) ==
    /\ pc = "prompt"
    /\ UNCHANGED <<called, texts>>
    /\ \E typed \in Inputs :
          /\ Branch(str_lower(typed)) = b
          /\ user_action' = str_lower(typed)

\* One pass of the outer loop up to its first prompt.
OuterLoop ==
    /\ pc = "outer"
    /\ passes < MaxPasses
    /\ UNCHANGED <<user_action, variation, pi_dictionary, store, edits, called,
                   texts>>
    /\ IF current_sentence_index < Len(sentences)
       THEN LET sent == sentences[current_sentence_index + 1]
            IN  InnerLoop(sentences, current_sentence_index, 0, sent,
                          split_sentence_into_words(sent), pi_dictionary,
                          passes + 1)
       ELSE /\ pc' = "returned"
            /\ result' = None
            /\ UNCHANGED <<sentences, current_sentence_index, selected_word_index,
                           sentence, words, fault, passes>>

\* A variant of the rollover that does not re-read the sentence string.
RolloverKeepsSentence(S, i, w, sent, ws) ==
    IF w >= Len(ws)
    THEN IF i + 1 < Len(S)
         THEN [i |-> i + 1, w |-> 0, sent |-> sent,
               ws |-> split_sentence_into_words(S[i + 2])]
         ELSE [i |-> i + 1, w |-> w, sent |-> sent, ws |-> ws]
    ELSE [i |-> i, w |-> w, sent |-> sent, ws |-> ws]

\* The rollover of `a` and `n`: past the last word, go to the next sentence
\* and, if there is one, to its first word.
Rollover(S, i, w, sent, ws) ==
    IF w >= Len(ws)
    THEN IF i + 1 < Len(S)
         THEN [i |-> i + 1, w |-> 0, sent |-> S[i + 2],
               ws |-> split_sentence_into_words(S[i + 2])]
         ELSE [i |-> i + 1, w |-> w, sent |-> sent, ws |-> ws]
    ELSE [i |-> i, w |-> w, sent |-> sent, ws |-> ws]

\* `a` with an entry: replace everywhere, re-split, advance with rollover.
Accept ==
    /\ ReadCommand("accept")
    /\ UNCHANGED <<variation, pi_dictionary, store, edits>>
    /\ LET pi_word == pi_entry.PI[variation]
           S == replace_word_in_all_sentences(sentences, SelectedWord, pi_word)
           raising == RaisingSentences(sentences, SelectedWord, pi_word)
       IN  IF raising # {}
           THEN Raise("AttributeError",
                      ReplacedBefore(sentences,
                                     CHOOSE j \in raising : \A k \in raising : j <= k,
                                     SelectedWord, pi_word),
                      current_sentence_index, selected_word_index, sentence, words)
           ELSE IF current_sentence_index >= Len(S)
           THEN Raise("IndexError", S, current_sentence_index,
                      selected_word_index, sentence, words)
           ELSE LET sent == S[current_sentence_index + 1]
                    r == Rollover(S, current_sentence_index,
                                  selected_word_index + 1, sent,
                                  split_sentence_into_words(sent))
                IN  InnerLoop(S, r.i, r.w, r.sent, r.ws, pi_dictionary, 0)

\* `n` or empty input: advance with rollover.
NextWord ==
    /\ ReadCommand("next")
    /\ UNCHANGED <<variation, pi_dictionary, store, edits>>
    /\ LET r == Rollover(sentences, current_sentence_index,
                         selected_word_index + 1, sentence, words)
       IN  InnerLoop(sentences, r.i, r.w, r.sent, r.ws, pi_dictionary, 0)

\* `p`: one word back, or the last word of the previous sentence.
PreviousWord ==
    /\ ReadCommand("previous")
    /\ UNCHANGED <<variation, pi_dictionary, store, edits>>
    /\ IF selected_word_index > 0
       THEN InnerLoop(sentences, current_sentence_index, selected_word_index - 1,
                      sentence, words, pi_dictionary, 0)
       ELSE IF current_sentence_index > 0
            THEN IF current_sentence_index - 1 >= Len(sentences)
                 THEN Raise("IndexError", sentences, current_sentence_index - 1,
                            selected_word_index, sentence, words)
                 ELSE LET sent == sentences[current_sentence_index]
                          ws == split_sentence_into_words(sent)
                      IN  InnerLoop(sentences, current_sentence_index - 1,
                                    Len(ws) - 1, sent, ws, pi_dictionary, 0)
            ELSE InnerLoop(sentences, current_sentence_index, selected_word_index,
                           sentence, words, pi_dictionary, 0)

\* A variant of `e` that does not reload the dictionary after the edit.
EditEntryWithoutReload ==
    /\ ReadCommand("edit")
    /\ UNCHANGED <<variation, pi_dictionary>>
    /\ \E edited \in {store} \cup {edit_entry(store, str_lower(SelectedWord), f) :
                                   f \in IF edits < MaxEdits THEN EditForms ELSE {}} :
          /\ store' = edited
          /\ edits' = IF edited = store THEN edits ELSE edits + 1
          /\ InnerLoop(sentences, current_sentence_index, selected_word_index,
                       sentence, words, pi_dictionary, 0)

\* `e`: edit the entry of the selected word, then reload the dictionary.
EditEntry ==
    /\ ReadCommand("edit")
    /\ UNCHANGED variation
    /\ \E edited \in {store} \cup {edit_entry(store, str_lower(SelectedWord), f) :
                                   f \in IF edits < MaxEdits THEN EditForms ELSE {}} :
          /\ store' = edited
          /\ edits' = IF edited = store THEN edits ELSE edits + 1
          /\ pi_dictionary' = LoadDictionary(edited)
          /\ InnerLoop(sentences, current_sentence_index, selected_word_index,
                       sentence, words, LoadDictionary(edited), 0)

\* `c` with an entry: replace everywhere by the typed form, re-split, advance.
Customize ==
    /\ ReadCommand("customize")
    /\ UNCHANGED <<variation, pi_dictionary, store, edits>>
    /\ \E typed \in CustomInputs :
          LET pi_word == pi_entry.PI[variation]
              custom_word == IF strip(typed) # <<>> THEN strip(typed) ELSE pi_word
              S == replace_word_in_all_sentences(sentences, SelectedWord, custom_word)
              raising == RaisingSentences(sentences, SelectedWord, custom_word)
          IN  IF raising # {}
              THEN Raise("AttributeError",
                         ReplacedBefore(sentences,
                                        CHOOSE j \in raising : \A k \in raising : j <= k,
                                        SelectedWord, custom_word),
                         current_sentence_index, selected_word_index, sentence, words)
              ELSE IF current_sentence_index >= Len(S)
              THEN Raise("IndexError", S, current_sentence_index,
                         selected_word_index, sentence, words)
              ELSE LET sent == S[current_sentence_index + 1]
                   IN  InnerLoop(S, current_sentence_index, selected_word_index + 1,
                                 sent, split_sentence_into_words(sent),
                                 pi_dictionary, 0)

\* `s`: go to the next sentence and, if there is one, to its first word.
SkipSentence ==
    /\ ReadCommand("skip")
    /\ current_sentence_index < Len(sentences) + MaxOvershoot
    /\ UNCHANGED <<variation, pi_dictionary, store, edits>>
    /\ IF current_sentence_index + 1 < Len(sentences)
       THEN LET sent == sentences[current_sentence_index + 2]
            IN  InnerLoop(sentences, current_sentence_index + 1, 0, sent,
                          split_sentence_into_words(sent), pi_dictionary, 0)
       ELSE InnerLoop(sentences, current_sentence_index + 1, selected_word_index,
                      sentence, words, pi_dictionary, 0)

\* `q`: return at once.
Quit ==
    /\ ReadCommand("quit")
    /\ pc' = "returned"
    /\ result' = None
    /\ UNCHANGED <<sentences, current_sentence_index, selected_word_index,
                   sentence, words, variation, pi_dictionary, store, edits,
                   fault, passes>>

\* A variant of the last branch that treats an unknown input as `n`.
InvalidAdvances ==
    /\ ReadCommand("invalid")
    /\ UNCHANGED <<variation, pi_dictionary, store, edits>>
    /\ LET r == Rollover(sentences, current_sentence_index,
                         selected_word_index + 1, sentence, words)
       IN  InnerLoop(sentences, r.i, r.w, r.sent, r.ws, pi_dictionary, 0)

\* Anything else: report it and prompt again.
Invalid ==
    /\ ReadCommand("invalid")
    /\ UNCHANGED <<variation, pi_dictionary, store, edits>>
    /\ InnerLoop(sentences, current_sentence_index, selected_word_index,
                 sentence, words, pi_dictionary, 0)

Next ==
    \/ OuterLoop
    \/ Accept
    \/ NextWord
    \/ PreviousWord
    \/ EditEntry
    \/ Customize
    \/ SkipSentence
    \/ Quit
    \/ Invalid

Spec == Init /\ [][Next]_vars

\* The review over a dictionary with missing values.
SpecMissing == InitMissing /\ [][Next]_vars

----------------------------------------------------------------------------
(* Calls of the pipeline functions on bounded texts. *)

\* The persisted dictionary of the pipeline runs: plain forms ("cat",
\* "glas"), a form with an uppercase letter ("tv"), a form that ends in `s`
\* and whose stem is a key itself ("bus", "ba"), a null value ("da") and a PI
\* mapping without the variation ("na").  Keys are lowercase words.
PipelineStore ==
    (<<"c", "a", "t">> :> Entry(<<"c", "a", "t">>, <<"k", "a", "t">>))
    @@ (<<"g", "l", "a", "s">> :> Entry(<<"g", "l", "a", "s">>, <<"k", "l", "a", "s">>))
    @@ (<<"t", "v">> :> Entry(<<"t", "v">>, <<"t", "i", "V", "i">>))
    @@ (<<"b", "u", "s">> :> Entry(<<"b", "u", "s">>, <<"b", "a", "s">>))
    @@ (<<"b", "a">> :> Entry(<<"b", "a">>, <<"b", "a", "h">>))
    @@ (<<"d", "a">> :> [whole |-> <<"d", "a">>,
                         PI |-> [v \in Variations |-> NoValue]])
    @@ (<<"n", "a">> :> [whole |-> <<"n", "a">>, PI |-> [v \in {} |-> NoValue]])

\* The pieces a text is made of: keys of the preliminary replacements in three
\* cases, a word that contains one, a key already replaced, dictionary keys in
\* three cases, plurals, a double-s ending, a lone `s`, words without an
\* entry, punctuation.
TextPieces ==
    { <<"t", "h", "e">>, <<"T", "h", "e">>, <<"T", "H", "E">>,
      <<"t", "h", "e", "a", "t", "e", "r">>, <<"o", "f">>, <<"a">>,
      <<"a", "~">>,
      <<"c", "a", "t">>, <<"C", "a", "t">>, <<"C", "A", "T">>,
      <<"c", "a", "t", "s">>, <<"C", "a", "t", "s">>,
      <<"g", "l", "a", "s", "s">>, <<"T", "V", "s">>, <<"s">>,
      <<"b", "u", "s">>, <<"d", "a">>, <<"d", "a", "s">>, <<"n", "a", "s">>,
      <<"d", "o", "g">>, <<".">> }

\* The texts of at most n pieces, separated by one space.
RECURSIVE TextsUpTo(_)
TextsUpTo(n) ==
    IF n = 1 THEN TextPieces
    ELSE TextsUpTo(n - 1)
         \cup {t \o <<" ">> \o piece : t \in TextsUpTo(n - 1), piece \in TextPieces}

InputTexts == TextsUpTo(MaxPieces)

\* The state before a pipeline function is called on an input text; no review
\* is running.
InitPipeline ==
    /\ texts \in {<<t>> : t \in InputTexts}
    /\ called = <<>>
    /\ variation \in Variations
    /\ store = PipelineStore
    /\ pi_dictionary = LoadDictionary(PipelineStore)
    /\ sentences = <<>>
    /\ current_sentence_index = 0
    /\ selected_word_index = 0
    /\ sentence = Unassigned
    /\ words = <<>>
    /\ user_action = Unassigned
    /\ edits = 0
    /\ pc = "idle"
    /\ fault = "none"
    /\ result = [kind |-> "running"]
    /\ passes = 0

\* Function f is called on the latest text and returns (or raises).
Call(f, raises, returned) ==
    /\ pc = "idle"
    /\ called' = Append(called, f)
    /\ IF raises
       THEN pc' = "fault" /\ fault' = "IndexError" /\ UNCHANGED texts
       ELSE texts' = Append(texts, returned) /\ UNCHANGED <<pc, fault>>
    /\ UNCHANGED <<sentences, current_sentence_index, selected_word_index,
                   sentence, words, user_action, variation, pi_dictionary,
                   store, edits, result, passes>>

CallPreliminar ==
    /\ called = <<>>
    /\ Call("perform_preliminar_replacements", FALSE,
            perform_preliminar_replacements(texts[1]))

CallUpdateWords ==
    /\ called = <<>>
    /\ Call("update_words_for_piss_variation", FALSE,
            update_words_for_piss_variation(texts[1], pi_dictionary, variation))

CallTransformWords ==
    /\ called = <<>>
    /\ Call("transform_words_with_s_suffix",
            TransformRaises(texts[1], pi_dictionary, variation),
            transform_words_with_s_suffix(texts[1], pi_dictionary, variation))

\* transcribe is called on the input text, or again on what it returned.
CallTranscribe ==
    /\ Len(called) < MaxCalls
    /\ \A k \in 1..Len(called) : called[k] = "transcribe"
    /\ LET input_text == texts[Len(texts)]
       IN  Call("transcribe",
                TransformRaises(
                    update_words_for_piss_variation(
                        perform_preliminar_replacements(input_text),
                        pi_dictionary, variation),
                    pi_dictionary, variation),
                transcribe(input_text, pi_dictionary, variation))

NextPipeline ==
    \/ CallPreliminar
    \/ CallUpdateWords
    \/ CallTransformWords
    \/ CallTranscribe

SpecPipeline == InitPipeline /\ [][NextPipeline]_vars

----------------------------------------------------------------------------
(* Vocabulary of the properties. *)

\* The words of sentence i (0-based) of list S.
WordsOf(S, i) == split_sentence_into_words(S[i + 1])

\* The engine awaits a command with the cursor on an existing word.
CursorValid ==
    /\ 0 <= current_sentence_index
    /\ current_sentence_index < Len(sentences)
    /\ 0 <= selected_word_index
    /\ selected_word_index < Len(WordsOf(sentences, current_sentence_index))
    /\ SelectedWord = WordsOf(sentences, current_sentence_index)[selected_word_index + 1]

\* The primed cursor is on an existing word of the primed list.
CursorValidNext ==
    /\ 0 <= current_sentence_index'
    /\ current_sentence_index' < Len(sentences')
    /\ 0 <= selected_word_index'
    /\ selected_word_index' < Len(WordsOf(sentences', current_sentence_index'))
    /\ words'[selected_word_index' + 1]
         = WordsOf(sentences', current_sentence_index')[selected_word_index' + 1]

\* A step that reads command ua at a prompt whose cursor is valid.
Reads(ua) == pc = "prompt" /\ CursorValid /\ user_action' = ua

OnLastWord == selected_word_index = Len(words) - 1
OnLastSentence == current_sentence_index = Len(sentences) - 1
SelectedHasEntry == HasEntry(pi_dictionary, str_lower(SelectedWord))

\* A sentence cut into maximal runs of word and of non-word characters.
RECURSIVE Runs(_)
Runs(s) ==
    IF s = <<>> THEN <<>>
    ELSE LET rest == Runs(Tail(s))
         IN  IF rest # <<>> /\ IsWordChar(Head(s)) = IsWordChar(rest[1][1])
             THEN <<(<<Head(s)>> \o rest[1])>> \o Tail(rest)
             ELSE <<(<<Head(s)>>)>> \o rest

RECURSIVE Concat(_)
Concat(rs) == IF rs = <<>> THEN <<>> ELSE Head(rs) \o Concat(Tail(rs))

\* Whether run r is an occurrence of word, whatever its case.
IsOccurrence(r, word) == str_lower(r) = str_lower(word)

\* Sentence s with every occurrence of word replaced by form itself.
ReplacedVerbatim(s, word, form) ==
    Concat([k \in 1..Len(Runs(s)) |->
        IF IsOccurrence(Runs(s)[k], word) THEN form ELSE Runs(s)[k]])

\* The form in the case of the occurrence it replaces.
InCaseOf(occurrence, form) ==
    IF isupper(occurrence) THEN str_upper(form)
    ELSE IF istitle(occurrence) THEN capitalize(form)
    ELSE form

\* Sentence s with every occurrence of word replaced by form in the
\* occurrence's case.
ReplacedInCase(s, word, form) ==
    Concat([k \in 1..Len(Runs(s)) |->
        IF IsOccurrence(Runs(s)[k], word) THEN InCaseOf(Runs(s)[k], form)
        ELSE Runs(s)[k]])

----------------------------------------------------------------------------
(* C1 *)

\* C1: when `n`, empty input, or `a` with an entry is issued on the last word
\* of the last sentence (for `a`: no word follows it once the sentence is
\* re-split), the engine returns without a fault and without reading another
\* command.
C1_ExhaustionReturnsNormally ==
    [][ ( /\ pc = "prompt" /\ CursorValid /\ OnLastWord /\ OnLastSentence
          /\ \/ user_action' \in {<<"n">>, <<>>}
             \/ /\ user_action' = <<"a">>
                /\ SelectedHasEntry
                /\ selected_word_index + 1
                     >= Len(WordsOf(sentences', current_sentence_index)) )
        => (pc' \in {"outer", "returned"} /\ fault' = "none") ]_vars

----------------------------------------------------------------------------
(* C2 *)

\* C2: whenever the engine awaits a command, the cursor is within the
\* sentence list and within the words of the current sentence, and the word
\* shown is that word.
C2_CursorInvariant == pc = "prompt" => CursorValid

----------------------------------------------------------------------------
(* C3 *)

\* C3 as stated: `a` on a word with an entry replaces every whole-word,
\* case-insensitive occurrence, in every sentence, by the entry's form for the
\* variation, and leaves the other sentences unchanged.
C3_AcceptReplacesVerbatim ==
    [][ (Reads(<<"a">>) /\ SelectedHasEntry)
        => /\ Len(sentences') = Len(sentences)
           /\ \A i \in 1..Len(sentences) :
                 sentences'[i] = ReplacedVerbatim(sentences[i], SelectedWord,
                                                  pi_entry.PI[variation]) ]_vars

\* C3 amended: ... by the entry's form for the variation in the case of the
\* occurrence (uppercased for an uppercase occurrence, capitalized for a
\* title-case one), in every sentence of the list; sentences without an
\* occurrence are unchanged.
C3_AcceptReplacesEverywhere ==
    [][ (pc = "prompt" /\ user_action' = <<"a">> /\ SelectedHasEntry)
        => /\ Len(sentences') = Len(sentences)
           /\ \A i \in 1..Len(sentences) :
                 /\ sentences'[i] = ReplacedInCase(sentences[i], SelectedWord,
                                                   pi_entry.PI[variation])
                 /\ (\A k \in 1..Len(Runs(sentences[i])) :
                        ~IsOccurrence(Runs(sentences[i])[k], SelectedWord))
                    => sentences'[i] = sentences[i] ]_vars

\* `a` was accepted on "ab" in sentence 0; sentence 1 was rewritten too.
C3_Witness ==
    /\ user_action = <<"a">>
    /\ variation = "L1"
    /\ sentences = << <<"a", "~", "b", " ", "c">>, <<"A", "~", "b", " ", "b", ".">> >>

----------------------------------------------------------------------------
(* C4 *)

\* C4: `n` or empty input moves the cursor one word on: from (i, w) with a
\* word w+1 in sentence i the next prompt is at (i, w+1); from the last word
\* of sentence i with a sentence i+1 the next prompt is at (i+1, 0).
C4_NextAdvancesOneWord ==
    [][ (\E ua \in {<<"n">>, <<>>} : Reads(ua))
        => /\ selected_word_index + 1 < Len(WordsOf(sentences, current_sentence_index))
              => /\ pc' = "prompt"
                 /\ current_sentence_index' = current_sentence_index
                 /\ selected_word_index' = selected_word_index + 1
                 /\ CursorValidNext
           /\ (OnLastWord /\ current_sentence_index + 1 < Len(sentences))
              => /\ pc' = "prompt"
                 /\ current_sentence_index' = current_sentence_index + 1
                 /\ selected_word_index' = 0
                 /\ CursorValidNext
           /\ sentences' = sentences ]_vars

----------------------------------------------------------------------------
(* C5 *)

\* C5: `c` with an entry follows the rollover rule: on the last word of
\* sentence i with a sentence i+1, the cursor goes to word 0 of sentence i+1;
\* on another word, to the next word of the same sentence.
C5_CustomizeRollsOver ==
    [][ (Reads(<<"c">>) /\ SelectedHasEntry)
        => LET resplit == WordsOf(sentences', current_sentence_index)
           IN  /\ selected_word_index + 1 < Len(resplit)
                  => /\ pc' = "prompt"
                     /\ current_sentence_index' = current_sentence_index
                     /\ selected_word_index' = selected_word_index + 1
               /\ (selected_word_index + 1 >= Len(resplit)
                   /\ current_sentence_index + 1 < Len(sentences)
                   /\ WordsOf(sentences', current_sentence_index + 1) # <<>>)
                  => /\ pc' = "prompt"
                     /\ current_sentence_index' = current_sentence_index + 1
                     /\ selected_word_index' = 0 ]_vars

----------------------------------------------------------------------------
(* C6 *)

\* C6: `s` leaves the current sentence: the cursor goes to word 0 of the next
\* sentence, and on the last sentence the review ends without another prompt.
C6_SkipLeavesSentence ==
    [][ Reads(<<"s">>)
        => IF current_sentence_index + 1 < Len(sentences)
           THEN /\ current_sentence_index' = current_sentence_index + 1
                /\ selected_word_index' = 0
           ELSE pc' # "prompt" ]_vars

----------------------------------------------------------------------------
(* C7 *)

\* C7: `p` moves the cursor back one word: to the previous word, or from
\* word 0 to the last word of the previous sentence, or not at all at (0, 0);
\* no error, the sentences unchanged, the cursor on an existing word.
C7_PreviousMovesBackOneWord ==
    [][ Reads(<<"p">>)
        => /\ pc' = "prompt"
           /\ fault' = "none"
           /\ sentences' = sentences
           /\ CursorValidNext
           /\ IF selected_word_index > 0
              THEN /\ current_sentence_index' = current_sentence_index
                   /\ selected_word_index' = selected_word_index - 1
              ELSE IF current_sentence_index > 0
              THEN /\ current_sentence_index' = current_sentence_index - 1
                   /\ selected_word_index'
                        = Len(WordsOf(sentences, current_sentence_index - 1)) - 1
              ELSE /\ current_sentence_index' = current_sentence_index
                   /\ selected_word_index' = selected_word_index ]_vars

----------------------------------------------------------------------------
(* C8 *)

\* C8: `q` ends the review at once: no further command is read, the quit
\* step modifies no sentence, and the engine returns the current sentence
\* list.
C8_QuitReturnsSentences ==
    [][ (pc = "prompt" /\ user_action' = <<"q">>)
        => /\ pc' = "returned"
           /\ sentences' = sentences
           /\ result' = [kind |-> "list", value |-> sentences] ]_vars

----------------------------------------------------------------------------
(* C9 *)

\* The commands of the prompt.
Commands == {<<"a">>, <<"n">>, <<>>, <<"p">>, <<"e">>, <<"c">>, <<"s">>, <<"q">>}

\* C9: an input that is no command, and `a` or `c` on a word without an
\* entry, changes neither the cursor nor any sentence, and the engine prompts
\* again for the same word.
C9_InvalidChangesNothing ==
    [][ ( /\ pc = "prompt"
          /\ \/ user_action' \notin Commands
             \/ user_action' \in {<<"a">>, <<"c">>} /\ ~SelectedHasEntry )
        => /\ pc' = "prompt"
           /\ UNCHANGED <<sentences, current_sentence_index, selected_word_index,
                          sentence, words, pi_dictionary, store>> ]_vars

\* `c` was refused on a word that has no entry, past the first sentence.
C9_Witness ==
    /\ pc = "prompt"
    /\ user_action = <<"c">>
    /\ CursorValid
    /\ ~SelectedHasEntry
    /\ current_sentence_index = 1
    /\ selected_word_index = 1
    /\ \A i \in 1..Len(sentences) : sentences[i] \in SentencePool

----------------------------------------------------------------------------
(* C10 *)

\* C10: `e` leaves the cursor and the sentences unchanged, and reloads the
\* dictionary after the edit: the lookup for the next prompt finds the entry
\* as the edit left it.
C10_EditThenReload ==
    [][ (pc = "prompt" /\ user_action' = <<"e">>)
        => LET key == str_lower(SelectedWord)
           IN  /\ pc' = "prompt"
               /\ UNCHANGED <<sentences, current_sentence_index,
                              selected_word_index>>
               /\ HasEntry(pi_dictionary', key) = HasEntry(store', key)
               /\ HasEntry(store', key)
                  => get_entry(pi_dictionary', key) = get_entry(store', key) ]_vars

\* `e` rewrote the entry of the selected word and the prompt shows it.
C10_Witness ==
    /\ pc = "prompt"
    /\ user_action = <<"e">>
    /\ edits = 1
    /\ SelectedHasEntry
    /\ pi_entry # InitialStore[<<"a", "b">>]
    /\ str_lower(SelectedWord) = <<"a", "b">>
    /\ pi_entry.PI[variation] = <<"x">>

----------------------------------------------------------------------------
(* C11 *)

\* The entry of the selected word has no value for the variation: the PI
\* mapping lacks the key or holds null for it.
SelectedValueMissing ==
    /\ SelectedHasEntry
    /\ \/ variation \notin DOMAIN pi_entry.PI
       \/ pi_entry.PI[variation] = NoValue

\* C11: a missing variation value is no error in the review: no step ends in
\* a fault of the lookup or of the replacement (KeyError, AttributeError),
\* and `a` on a word whose entry has no value for the variation leaves every
\* sentence unchanged.
C11_MissingValueIsNoError ==
    [][ /\ fault' \notin {"KeyError", "AttributeError"}
        /\ (pc = "prompt" /\ user_action' = <<"a">> /\ SelectedValueMissing)
           => sentences' = sentences ]_vars

----------------------------------------------------------------------------
(* C12 *)

\* C12: transcribe is idempotent: applied to what it returned, under the same
\* dictionary and variation, it returns that text again.
C12_TranscribeIdempotent ==
    (called = <<"transcribe", "transcribe">> /\ fault = "none")
        => texts[3] = texts[2]

----------------------------------------------------------------------------
(* C13 *)

\* The form the dictionary of the state gives key for the variation, when it
\* gives one: the key has an entry whose PI mapping holds a non-null value.
HasForm(key) ==
    /\ HasEntry(pi_dictionary, key)
    /\ variation \in DOMAIN get_entry(pi_dictionary, key).PI
    /\ get_entry(pi_dictionary, key).PI[variation] # NoValue
FormOf(key) == get_entry(pi_dictionary, key).PI[variation]

\* The token without its last character.
StemOf(token) == SubSeq(token, 1, Len(token) - 1)

\* The suffix rule selects the token: it ends in `s`, not in `ss`, and its
\* lowercased stem has a form.
SuffixSelected(token) ==
    /\ token[Len(token)] = "s"
    /\ ~(Len(token) >= 2 /\ token[Len(token) - 1] = "s")
    /\ HasForm(str_lower(StemOf(token)))

\* Text out is the concatenation of texts that match the pieces one by one:
\* piece k exactly where exact[k] holds, up to letter case otherwise.
RECURSIVE MatchesPieces(_, _, _)
MatchesPieces(out, pieces, exact) ==
    IF pieces = <<>> THEN out = <<>>
    ELSE LET n == Len(Head(pieces))
         IN  /\ Len(out) >= n
             /\ IF Head(exact) THEN SubSeq(out, 1, n) = Head(pieces)
                ELSE str_lower(SubSeq(out, 1, n)) = str_lower(Head(pieces))
             /\ MatchesPieces(SubSeq(out, n + 1, Len(out)), Tail(pieces),
                              Tail(exact))

\* C13: transform_words_with_s_suffix rewrites exactly the tokens the suffix
\* rule selects, each to the form of its stem followed by `s` (letter for
\* letter when the stem does not start with an uppercase letter, up to letter
\* case when it does); a token in `ss` and every other token are output as
\* they are.
C13_SuffixRuleSelection ==
    called = <<"transform_words_with_s_suffix">>
        => /\ fault = "none"
           /\ LET tokens == Runs(texts[1])
              IN  MatchesPieces(texts[2],
                     [k \in 1..Len(tokens) |->
                         IF SuffixSelected(tokens[k])
                         THEN FormOf(str_lower(StemOf(tokens[k]))) \o <<"s">>
                         ELSE tokens[k]],
                     [k \in 1..Len(tokens) |->
                         SuffixSelected(tokens[k])
                            => tokens[k][1] \notin UpperChars])

\* "cats glass" went through the suffix step: "cats" became "kats", and
\* "glass" stayed although "glas" has a form.
C13_Witness ==
    /\ called = <<"transform_words_with_s_suffix">>
    /\ texts[1] = <<"c", "a", "t", "s", " ", "g", "l", "a", "s", "s">>
    /\ texts[2] = <<"k", "a", "t", "s", " ", "g", "l", "a", "s", "s">>
    /\ HasForm(<<"g", "l", "a", "s">>)

----------------------------------------------------------------------------
(* C14 *)

\* The keys of the fixed mapping, and the value of a key.
PreliminarKeys ==
    {preliminar_replacements[k][1] : k \in 1..Len(preliminar_replacements)}
PreliminarValue(key) ==
    LET k == CHOOSE j \in 1..Len(preliminar_replacements) :
                 preliminar_replacements[j][1] = key
    IN  preliminar_replacements[k][2]

\* The run is a whole word that is a key of the fixed mapping, in any case.
IsPreliminarKey(run) == str_lower(run) \in PreliminarKeys

\* C14: perform_preliminar_replacements replaces a key of the fixed mapping
\* only where it is a whole word (by its value: letter for letter for a
\* lowercase occurrence, up to letter case otherwise); a word that contains a
\* key, and all text outside the whole-word occurrences, is unchanged.
C14_WholeWordReplacement ==
    called = <<"perform_preliminar_replacements">>
        => /\ fault = "none"
           /\ LET runs == Runs(texts[1])
              IN  MatchesPieces(texts[2],
                     [k \in 1..Len(runs) |->
                         IF IsPreliminarKey(runs[k])
                         THEN PreliminarValue(str_lower(runs[k]))
                         ELSE runs[k]],
                     [k \in 1..Len(runs) |->
                         IsPreliminarKey(runs[k]) => runs[k] = str_lower(runs[k])])

\* "theater the" went through the step: only the whole word was replaced.
C14_Witness ==
    /\ called = <<"perform_preliminar_replacements">>
    /\ texts[1] = <<"t", "h", "e", "a", "t", "e", "r", " ", "t", "h", "e">>
    /\ texts[2] = <<"t", "h", "e", "a", "t", "e", "r", " ", "t", "h", "e", "~">>

----------------------------------------------------------------------------
(* C15 *)

\* The run is a word.
IsWordRun(run) == IsWordChar(run[1])

\* C15: update_words_for_piss_variation returns its tokens joined in order:
\* whitespace, punctuation, and the words whose lowercased form has no
\* non-null value for the variation are as in the input; a word that has one
\* is replaced by it (up to letter case).
C15_LosslessReconstruction ==
    called = <<"update_words_for_piss_variation">>
        => /\ fault = "none"
           /\ LET runs == Runs(texts[1])
                  replaced(k) == IsWordRun(runs[k]) /\ HasForm(str_lower(runs[k]))
              IN  MatchesPieces(texts[2],
                     [k \in 1..Len(runs) |->
                         IF replaced(k) THEN FormOf(str_lower(runs[k]))
                         ELSE runs[k]],
                     [k \in 1..Len(runs) |-> ~replaced(k)])

\* "da cat" went through the step: the word with a null value and the space
\* are as they were, "cat" was replaced.
C15_Witness ==
    /\ called = <<"update_words_for_piss_variation">>
    /\ texts[1] = <<"d", "a", " ", "c", "a", "t">>
    /\ texts[2] = <<"d", "a", " ", "k", "a", "t">>
    /\ ~HasForm(<<"d", "a">>)

----------------------------------------------------------------------------
(* C16 *)

\* Text out is the concatenation of texts that match the pieces one by one:
\* piece k itself where fixed[k] holds, any text otherwise.
RECURSIVE MatchesFixedPieces(_, _, _)
MatchesFixedPieces(out, pieces, fixed) ==
    IF pieces = <<>> THEN out = <<>>
    ELSE IF Head(fixed)
    THEN LET n == Len(Head(pieces))
         IN  /\ Len(out) >= n
             /\ SubSeq(out, 1, n) = Head(pieces)
             /\ MatchesFixedPieces(SubSeq(out, n + 1, Len(out)), Tail(pieces),
                                   Tail(fixed))
    ELSE \E n \in 0..Len(out) :
            MatchesFixedPieces(SubSeq(out, n + 1, Len(out)), Tail(pieces),
                               Tail(fixed))

\* The word has no entry in the dictionary and the suffix rule does not
\* select it.
NoEntryNoSuffix(word) ==
    /\ ~HasEntry(pi_dictionary, str_lower(word))
    /\ ~SuffixSelected(word)

\* C16 as stated: transcribe returns every word that is absent from the
\* dictionary and does not match the suffix rule unchanged, in its place
\* between the other pieces of the text.
C16_NoEntryPassthrough ==
    (called = <<"transcribe">> /\ fault = "none")
        => LET runs == Runs(texts[1])
           IN  MatchesFixedPieces(texts[2], runs,
                  [k \in 1..Len(runs) |->
                      IsWordRun(runs[k]) /\ NoEntryNoSuffix(runs[k])])

\* C16 amended: ... every word that is absent from the dictionary, is no key
\* of the fixed preliminary mapping (in any case) and does not match the
\* suffix rule, unchanged; so are the runs of whitespace and punctuation.
C16_NoEntryNoKeyPassthrough ==
    (called = <<"transcribe">> /\ fault = "none")
        => LET runs == Runs(texts[1])
           IN  MatchesFixedPieces(texts[2], runs,
                  [k \in 1..Len(runs) |->
                      IsWordRun(runs[k])
                         => /\ NoEntryNoSuffix(runs[k])
                            /\ ~IsPreliminarKey(runs[k])])

\* "glass the" was transcribed: "glass" (no entry, a double-s ending whose
\* stem has a form) is unchanged next to a word that was replaced.
C16_Witness ==
    /\ called = <<"transcribe">>
    /\ texts[1] = <<"g", "l", "a", "s", "s", " ", "t", "h", "e">>
    /\ texts[2] = <<"g", "l", "a", "s", "s", " ", "t", "h", "e", "~">>
    /\ NoEntryNoSuffix(<<"g", "l", "a", "s", "s">>)

----------------------------------------------------------------------------
(* C17 *)

\* The case rule the claim names (CaseAdapter.adapt): the replacement
\* uppercased for a fully uppercase original, with only its first character
\* uppercased for an original whose first character is uppercase, and as it
\* is otherwise; empty strings are returned as they are.
adapt(original, replacement) ==
    IF isupper(original) THEN str_upper(replacement)
    ELSE IF original # <<>> /\ original[1] \in UpperChars /\ replacement # <<>>
    THEN <<UpperOf(replacement[1])>> \o Tail(replacement)
    ELSE replacement

\* C17: the suffix step raises no error and returns, for every token the
\* suffix rule selects, adapt(stem, form of the stem) followed by `s`, and
\* every other token as it is.
C17_SuffixCaseAdaptation ==
    called = <<"transform_words_with_s_suffix">>
        => /\ fault = "none"
           /\ LET tokens == Runs(texts[1])
              IN  texts[2] = Concat(
                     [k \in 1..Len(tokens) |->
                         IF SuffixSelected(tokens[k])
                         THEN adapt(StemOf(tokens[k]),
                                    FormOf(str_lower(StemOf(tokens[k]))))
                              \o <<"s">>
                         ELSE tokens[k]])

----------------------------------------------------------------------------
(* C18 *)

\* C18: in what transcribe returns, every word that the variation step
\* replaced stands as that step produced it (and whitespace and punctuation
\* as given), whatever the suffix step does to the other words.
C18_ReplacedWordsNotReprocessed ==
    (called = <<"transcribe">> /\ fault = "none")
        => LET replaced_text == perform_preliminar_replacements(texts[1])
               runs == Runs(replaced_text)
               substituted(k) ==
                   /\ IsWordRun(runs[k])
                   /\ str_lower(runs[k]) \in DOMAIN replacement_dict(pi_dictionary,
                                                                    variation)
           IN  MatchesFixedPieces(texts[2],
                  [k \in 1..Len(runs) |->
                      IF substituted(k)
                      THEN replace_word(runs[k], pi_dictionary, variation)
                      ELSE runs[k]],
                  [k \in 1..Len(runs) |-> substituted(k) \/ ~IsWordRun(runs[k])])

----------------------------------------------------------------------------
(* C19 *)

\* C19: no step changes the length of the sentence list, and only `a` and `c`
\* on a word with an entry change a sentence: every other command, and a
\* pass of the outer loop that reads none, leaves each sentence as it was,
\* the write-back at the end of the inner loop included.
C19_OnlyAcceptAndCustomizeModify ==
    [][ /\ Len(sentences') = Len(sentences)
        /\ ( \/ pc = "outer"
             \/ /\ pc = "prompt"
                /\ ~(user_action' \in {<<"a">>, <<"c">>} /\ SelectedHasEntry) )
           => sentences' = sentences ]_vars

\* After `a` rewrote "ab", `n` left the last word of sentence 0; sentence 1
\* has no word, so the inner loop ended at once and the write-back stored
\* sentence 1 into its own place.
C19_Witness ==
    /\ pc = "outer"
    /\ user_action = <<"n">>
    /\ current_sentence_index = 1
    /\ sentence = <<".">>
    /\ sentences = << <<"a", "~", "b", " ", "c">>, <<".">> >>

----------------------------------------------------------------------------
(* C20 *)

\* C20: every pass of the outer loop reads a command or moves to a later
\* sentence: a pass that ends without having reached the prompt leaves the
\* sentence index larger than it found it.
C20_EveryPassMakesProgress ==
    [][ (pc = "outer" /\ pc' = "outer")
        => current_sentence_index' > current_sentence_index ]_vars

====
